---- MODULE Spec2Model ----
(***************************************************************************)
(* The mint contract's position ledger (contracts/mint): the persisted     *)
(* position bucket, its two index buckets and the position-id singleton,   *)
(* and the four handlers open_position, deposit, withdraw and mint of      *)
(* positions.rs.  Each handler is one action, which leaves its response   *)
(* for the host to dispatch; the collateral oracle, the price oracle and   *)
(* the asset registry are the environment the handlers read.               *)
(***************************************************************************)
EXTENDS Integers, Sequences, FiniteSets, TLC

VARIABLES positions, by_user, by_asset, position_idx,
          asset_configs, collateral_oracle, oracle, response,
          supplied, minted, withdrawn

vars == <<positions, by_user, by_asset, position_idx,
          asset_configs, collateral_oracle, oracle, response,
          supplied, minted, withdrawn>>

ledger == <<positions, by_user, by_asset, position_idx>>

\* What the responses of the successful calls add up to, by position: the
\* collateral that open_position and deposit have taken, the amounts of the
\* mint messages, and the amounts of the transfer messages.
books == <<supplied, minted, withdrawn>>

-----------------------------------------------------------------------------
(* Bounds of the model.                                                    *)

\* open_position is not called once this many positions exist.
MaxPositions == 2

\* deposit is not called with an amount that takes a balance past this.
MaxCollateral == 1100

\* Where the transfers are added up, open_position is not called once this
\* many positions exist.
MaxAuditedPositions == 1

-----------------------------------------------------------------------------
(* Decimal (cosmwasm_std): a fixed-point number kept as an integer count   *)
(* of fractional units.  The library's unit is 10^18; the model keeps two  *)
(* decimal places so that every product stays inside TLC's integers.       *)
DECIMAL_UNIT == 100

\* Decimal::one()
DecimalOne == DECIMAL_UNIT

\* whole + hundredths/100 as a Decimal
Dec(whole, hundredths) == whole * DECIMAL_UNIT + (hundredths * DECIMAL_UNIT) \div 100

\* Uint128 * Decimal: the product, rounded down to a whole amount.
MulDecimal(amount, d) == (amount * d) \div DECIMAL_UNIT

\* math.rs: the product of two decimals, rounded down to the unit.
decimal_multiplication(a, b) == (a * b) \div DECIMAL_UNIT

\* math.rs: the quotient of two decimals, rounded down to the unit (b # 0).
decimal_division(a, b) == (a * DECIMAL_UNIT) \div b

\* math.rs: 1 / d, rounded down to the unit (d # 0).
reverse_decimal(d) == (DECIMAL_UNIT * DECIMAL_UNIT) \div d

-----------------------------------------------------------------------------
(* Addresses and asset identities.                                         *)

\* deps.api.addr_canonicalize / addr_humanize
addr_canonicalize(addr) == [canonical |-> addr]
addr_humanize(canon) == canon.canonical

NativeToken(denom) == [tag |-> "native_token", id |-> denom]
Token(contract_addr) == [tag |-> "token", id |-> contract_addr]

\* AssetInfo::to_raw: a token's contract address is canonicalized.
to_raw(info) ==
    IF info.tag = "token"
    THEN [tag |-> "token", id |-> addr_canonicalize(info.id)]
    ELSE info

\* AssetInfoRaw::to_normal
info_to_normal(raw) ==
    IF raw.tag = "token"
    THEN [tag |-> "token", id |-> addr_humanize(raw.id)]
    ELSE raw

\* AssetRaw::to_normal
to_normal(asset_raw) ==
    [info |-> info_to_normal(asset_raw.info), amount |-> asset_raw.amount]

\* AssetInfoRaw equality (the tag decides how the identity is read).
InfoEq(a, b) == a.tag = b.tag /\ a.id = b.id

-----------------------------------------------------------------------------
(* The callers, assets and quotes the model draws its inputs from.         *)

Senders == {"alice", "bob"}

\* The collateral the collateral oracle lists, and one it does not.
ListedCollateral == NativeToken("uusd")
UnlistedCollateral == NativeToken("uluna")

\* The synthetic token the registry holds, and one it does not.
RegisteredToken == "mAAPL"
UnregisteredToken == "mXYZ"

AssetInfos == {Token(RegisteredToken), Token(UnregisteredToken), ListedCollateral}

CollateralInfos == {ListedCollateral, UnlistedCollateral}

\* Option<T>: None is the empty sequence, Some(x) the sequence of x.
None == <<>>
Some(x) == <<x>>
IsSome(o) == Len(o) = 1
Unwrap(o) == o[1]

\* What the collateral oracle may hold for the listed collateral:
\* no quote, or (price, multiplier, is_revoked).
CollateralQuotes ==
    { None,
      Some([price |-> Dec(10, 0), multiplier |-> Dec(1, 0), is_revoked |-> FALSE]),
      Some([price |-> Dec(10, 0), multiplier |-> Dec(1, 67), is_revoked |-> FALSE]),
      Some([price |-> Dec(10, 0), multiplier |-> Dec(1, 0), is_revoked |-> TRUE]) }

\* What the price oracle may hold for the registered token.
PriceQuotes == { None, Some(Dec(5, 0)) }

\* The registry's entry of the registered token before and after migration.
MinCollateralRatio == Dec(1, 50)
EndPrices == { Dec(5, 0) }

OpenAmounts == {0, 1000}
DepositAmounts == {0, 100}
WithdrawAmounts == {0, 250, 251, 260}
MintAmounts == {0, 300}
CollateralRatios == { Dec(2, 0), Dec(3000, 0) }


-----------------------------------------------------------------------------
(* Error texts.  An error of the handlers themselves carries the text of   *)
(* its StdError::generic_err; the others are named as the asserts, the     *)
(* querier and the ledger name them.                                       *)

Ok == "ok"
Unauthorized == "unauthorized"
WrongCollateral == "Wrong collateral"
LowCollateralRatio == "Can not open a position with low collateral ratio than minimum"
MintAmountZero == "collateral is too small"
WithdrawTooMuch == "Cannot withdraw more than you provide"
WithdrawInsufficientCollateral == "Cannot withdraw collateral over than minimum collateral ratio"
MintInsufficientCollateral == "Cannot mint asset over than min collateral ratio"
UnknownAsset == "no asset data stored"
NotToken == "panic: DO NOT ENTER HERE"
AssetMigrated == "AssetMigrated"
AssetRevoked == "AssetRevoked"
PriceUnavailable == "PriceUnavailable"
PositionNotFound == "PositionNotFound"
ArithmeticError == "ArithmeticError"
WrongAsset == "Wrong asset"

-----------------------------------------------------------------------------
(* state.rs: the storage of the contract.                                  *)

\* The storage as the handlers find it.
Storage ==
    [positions |-> positions, by_user |-> by_user,
     by_asset |-> by_asset, position_idx |-> position_idx]

\* Bucket::save under a key.
Save(bucket, key, value) ==
    [k \in DOMAIN bucket \cup {key} |-> IF k = key THEN value ELSE bucket[k]]

\* store_position_idx with one more than the given value saved.
store_position_idx_one_more(s, idx) == [s EXCEPT !.position_idx = idx + 1]

\* store_position_idx with the save lost: the counter keeps its value.
store_position_idx_lost(s, idx) == s

store_position_idx(s, idx) == [s EXCEPT !.position_idx = idx]

read_position_idx(s) == s.position_idx

\* read_asset_config with a default entry for a token that has none.
read_asset_config_or_default(asset_token) ==
    IF asset_token \in DOMAIN asset_configs
    THEN Some(asset_configs[asset_token])
    ELSE Some([token |-> asset_token, min_collateral_ratio |-> DECIMAL_UNIT,
               end_price |-> None])

\* read_asset_config with the end price lost on the way.
read_asset_config_without_end_price(asset_token) ==
    IF asset_token \in DOMAIN asset_configs
    THEN Some([asset_configs[asset_token] EXCEPT !.end_price = None])
    ELSE None

\* The registry entry of a token, or None ("no asset data stored").
read_asset_config(asset_token) ==
    IF asset_token \in DOMAIN asset_configs
    THEN Some(asset_configs[asset_token])
    ELSE None

\* create_position with the asset index left out.
create_position_without_asset_index(s, idx, position) ==
    [s EXCEPT !.positions = Save(@, idx, position),
              !.by_user = @ \cup {<<position.owner, idx>>}]

\* create_position with the buckets replaced instead of extended.
create_position_keeps_latest_only(s, idx, position) ==
    [s EXCEPT !.positions = Save(<<>>, idx, position),
              !.by_user = {<<position.owner, idx>>},
              !.by_asset = {<<position.asset.info, idx>>}]

\* assert_revoked_collateral with the flag ignored.
assert_revoked_collateral_never(info) == Ok

create_position(s, idx, position) ==
    [s EXCEPT !.positions = Save(@, idx, position),
              !.by_user = @ \cup {<<position.owner, idx>>},
              !.by_asset = @ \cup {<<position.asset.info, idx>>}]

\* store_position with the position saved under the first key.
store_position_under_first_key(s, idx, position) ==
    [s EXCEPT !.positions = Save(@, 1, position)]

store_position(s, idx, position) ==
    [s EXCEPT !.positions = Save(@, idx, position)]

\* The position stored under idx, or None (PositionNotFound).
read_position(s, idx) ==
    IF idx \in DOMAIN s.positions THEN Some(s.positions[idx]) ELSE None

-----------------------------------------------------------------------------
(* querier.rs and asserts.rs.                                              *)

\* The collateral oracle's answer for a collateral: None when it has no quote.
load_collateral_info(collateral_info_raw) ==
    IF InfoEq(collateral_info_raw, to_raw(ListedCollateral))
    THEN collateral_oracle
    ELSE None

\* The price oracle's answer for a synthetic asset: None when it has no quote.
load_asset_price(asset_info_raw) ==
    IF InfoEq(asset_info_raw, to_raw(Token(RegisteredToken)))
    THEN oracle
    ELSE None

\* Fails when the collateral is revoked.
assert_revoked_collateral(info) == IF info.is_revoked THEN AssetRevoked ELSE Ok

\* Fails when the asset has an end price.
assert_migrated_asset(asset_config) ==
    IF IsSome(asset_config.end_price) THEN AssetMigrated ELSE Ok

\* The given collateral is the position's collateral asset, and not zero.
assert_collateral(position, collateral) ==
    IF ~InfoEq(to_raw(collateral.info), position.collateral.info)
          \/ collateral.amount = 0
    THEN WrongCollateral
    ELSE Ok

\* The given asset is the position's synthetic asset, and not zero.
assert_asset(position, asset) ==
    IF ~InfoEq(to_raw(asset.info), position.asset.info) \/ asset.amount = 0
    THEN WrongAsset
    ELSE Ok

-----------------------------------------------------------------------------
(* What a handler returns: the result, the storage as the handler leaves   *)
(* it, the attributes and messages of the Response, and the oracles the    *)
(* handler has queried, in order.  An Err carries no Response.             *)

Return(result, s, attributes, messages, queries) ==
    [result |-> result, storage |-> s, attributes |-> attributes,
     messages |-> messages, queries |-> queries]

Err(text, s, queries) == Return(text, s, <<>>, <<>>, queries)

\* MintMsg with the amount left at zero.
MintMsg_without_amount(contract_addr, recipient, amount) ==
    [msg |-> "mint", contract_addr |-> contract_addr,
     recipient |-> recipient, amount |-> 0]

\* Cw20ExecuteMsg::Mint sent to the synthetic token's contract.
MintMsg(contract_addr, recipient, amount) ==
    [msg |-> "mint", contract_addr |-> contract_addr,
     recipient |-> recipient, amount |-> amount]

\* Asset::into_msg: the transfer of an asset to a recipient.
TransferMsg(asset, recipient) ==
    [msg |-> "transfer", info |-> asset.info,
     recipient |-> recipient, amount |-> asset.amount]

-----------------------------------------------------------------------------
(* positions.rs: the handlers.  Each is the function of the storage (s),   *)
(* the caller's inputs and the environment that the code computes, with    *)
(* the checks in the code's order.                                         *)

\* required_collateral with the collateral multiplier left out.
required_collateral_without_multiplier(asset_amount, asset_price, collateral_price, min_collateral_ratio, collateral_multiplier) ==
    MulDecimal(MulDecimal(asset_amount, decimal_division(asset_price, collateral_price)),
               min_collateral_ratio)

\* required_collateral with the minimum collateral ratio left out.
required_collateral_without_ratio(asset_amount, asset_price, collateral_price, min_collateral_ratio, collateral_multiplier) ==
    MulDecimal(MulDecimal(asset_amount, decimal_division(asset_price, collateral_price)),
               collateral_multiplier)

\* The collateral a synthetic amount requires: the amount in collateral
\* units, times the minimum ratio, times the multiplier, each product
\* rounded down (positions.rs, withdraw and mint).
required_collateral(asset_amount, asset_price, collateral_price, min_collateral_ratio, collateral_multiplier) ==
    LET asset_value_in_collateral_asset ==
            MulDecimal(asset_amount, decimal_division(asset_price, collateral_price))
    IN  MulDecimal(MulDecimal(asset_value_in_collateral_asset, min_collateral_ratio),
                   collateral_multiplier)

\* below_minimum_ratio with the collateral's multiplier left out.
below_minimum_ratio_without_multiplier(collateral_ratio, asset_config, collateral_multiplier) ==
    collateral_ratio < asset_config.min_collateral_ratio

\* open_position: the target ratio is below the asset's minimum ratio times
\* the collateral's multiplier.
below_minimum_ratio(collateral_ratio, asset_config, collateral_multiplier) ==
    collateral_ratio
      < decimal_multiplication(asset_config.min_collateral_ratio, collateral_multiplier)

\* open_mint_amount with the target ratio applied instead of its reciprocal.
open_mint_amount_times_ratio(collateral_amount, collateral_price, asset_price, collateral_ratio) ==
    MulDecimal(MulDecimal(collateral_amount,
                          decimal_division(collateral_price, asset_price)),
               collateral_ratio)

\* open_mint_amount with the target ratio left out.
open_mint_amount_without_ratio(collateral_amount, collateral_price, asset_price, collateral_ratio) ==
    MulDecimal(collateral_amount, decimal_division(collateral_price, asset_price))

\* open_position: the collateral converted to the amount to mint.
open_mint_amount(collateral_amount, collateral_price, asset_price, collateral_ratio) ==
    LET asset_price_in_collateral_asset == decimal_division(collateral_price, asset_price)
    IN  MulDecimal(MulDecimal(collateral_amount, asset_price_in_collateral_asset),
                   reverse_decimal(collateral_ratio))

\* increase_collateral with the balance overwritten by the deposited amount.
increase_collateral_overwrites(position, collateral) ==
    [position EXCEPT !.collateral.amount = collateral.amount]

\* deposit: the position with its collateral amount increased.
increase_collateral(position, collateral) ==
    [position EXCEPT !.collateral.amount = @ + collateral.amount]

\* withdraw_multiplier with the oracle's multiplier kept for every asset.
withdraw_multiplier_from_oracle(asset_config, collateral_multiplier) ==
    collateral_multiplier

\* withdraw: the multiplier is ignored for delisted assets.
withdraw_multiplier(asset_config, collateral_multiplier) ==
    IF IsSome(asset_config.end_price) THEN DecimalOne ELSE collateral_multiplier

\* unauthorized with every sender let through.
unauthorized_never(sender, position_owner) == FALSE

\* deposit, withdraw, mint: the sender is not the owner of the position.
unauthorized(sender, position_owner) == sender # position_owner

\* withdraw_collateral with nothing withdrawn when no collateral is given.
withdraw_collateral_none_is_nothing(position, collateral_opt) ==
    IF IsSome(collateral_opt)
    THEN Unwrap(collateral_opt)
    ELSE [to_normal(position.collateral) EXCEPT !.amount = 0]

\* withdraw: the collateral to withdraw is the given one, or the whole
\* collateral of the position when none is given.
withdraw_collateral(position, collateral_opt) ==
    IF IsSome(collateral_opt)
    THEN Unwrap(collateral_opt)
    ELSE to_normal(position.collateral)

\* mint_asset_amount with the amount the position already owes left out.
mint_asset_amount_additional_only(mint_amount, position) == mint_amount

\* mint: the new asset amount of the position.
mint_asset_amount(mint_amount, position) == mint_amount + position.asset.amount

open_position(s, sender, collateral, asset_info, collateral_ratio) ==
    IF collateral.amount = 0 THEN Err(WrongCollateral, s, <<>>) ELSE
    LET collateral_info_raw == to_raw(collateral.info)
        collateral_info == load_collateral_info(collateral_info_raw)
        q1 == <<"collateral_oracle">>
    IN
    IF ~IsSome(collateral_info) THEN Err(PriceUnavailable, s, q1) ELSE
    IF assert_revoked_collateral(Unwrap(collateral_info)) # Ok
    THEN Err(AssetRevoked, s, q1) ELSE
    LET collateral_price == Unwrap(collateral_info).price
        collateral_multiplier == Unwrap(collateral_info).multiplier
        asset_info_raw == to_raw(asset_info)
    IN
    IF asset_info_raw.tag # "token" THEN Err(NotToken, s, q1) ELSE
    LET asset_config_opt == read_asset_config(asset_info_raw.id) IN
    IF ~IsSome(asset_config_opt) THEN Err(UnknownAsset, s, q1) ELSE
    LET asset_config == Unwrap(asset_config_opt) IN
    IF assert_migrated_asset(asset_config) # Ok THEN Err(AssetMigrated, s, q1) ELSE
    IF below_minimum_ratio(collateral_ratio, asset_config, collateral_multiplier)
    THEN Err(LowCollateralRatio, s, q1) ELSE
    LET asset_price_opt == load_asset_price(asset_info_raw)
        q2 == <<"collateral_oracle", "oracle">>
    IN
    IF ~IsSome(asset_price_opt) THEN Err(PriceUnavailable, s, q2) ELSE
    LET asset_price == Unwrap(asset_price_opt) IN
    IF asset_price = 0 \/ collateral_ratio = 0 THEN Err(ArithmeticError, s, q2) ELSE
    LET mint_amount == open_mint_amount(collateral.amount, collateral_price,
                                        asset_price, collateral_ratio)
    IN
    IF mint_amount = 0 THEN Err(MintAmountZero, s, q2) ELSE
    LET idx == read_position_idx(s)
        s1 == create_position(s, idx,
                  [idx |-> idx,
                   owner |-> addr_canonicalize(sender),
                   collateral |-> [amount |-> collateral.amount,
                                   info |-> collateral_info_raw],
                   asset |-> [amount |-> mint_amount, info |-> to_raw(asset_info)]])
        messages == <<MintMsg(addr_humanize(asset_config.token), sender, mint_amount)>>
        s2 == store_position_idx(s1, idx + 1)
        attributes == [action |-> "open_position", position_idx |-> idx,
                       mint_amount |-> [info |-> asset_info, amount |-> mint_amount],
                       collateral_amount |-> collateral]
    IN  Return(Ok, s2, attributes, messages, q2)

\* deposit with the position stored before the sender is checked.
deposit_stores_before_checks(s, sender, idx, collateral) ==
    LET position_opt == read_position(s, idx) IN
    IF ~IsSome(position_opt) THEN Err(PositionNotFound, s, <<>>) ELSE
    LET position == Unwrap(position_opt)
        s1 == store_position(s, idx, increase_collateral(position, collateral))
    IN
    IF unauthorized(sender, addr_humanize(position.owner)) THEN Err(Unauthorized, s1, <<>>) ELSE
    IF assert_collateral(position, collateral) # Ok
    THEN Err(WrongCollateral, s1, <<>>)
    ELSE Return(Ok, s1,
                [action |-> "deposit", position_idx |-> idx,
                 deposit_amount |-> collateral],
                <<>>, <<"collateral_oracle">>)

deposit(s, sender, idx, collateral) ==
    LET position_opt == read_position(s, idx) IN
    IF ~IsSome(position_opt) THEN Err(PositionNotFound, s, <<>>) ELSE
    LET position == Unwrap(position_opt)
        position_owner == addr_humanize(position.owner)
    IN
    IF unauthorized(sender, position_owner) THEN Err(Unauthorized, s, <<>>) ELSE
    IF assert_collateral(position, collateral) # Ok
    THEN Err(WrongCollateral, s, <<>>) ELSE
    LET collateral_info == load_collateral_info(position.collateral.info)
        q1 == <<"collateral_oracle">>
    IN
    IF ~IsSome(collateral_info) THEN Err(PriceUnavailable, s, q1) ELSE
    IF assert_revoked_collateral(Unwrap(collateral_info)) # Ok
    THEN Err(AssetRevoked, s, q1) ELSE
    IF position.asset.info.tag # "token" THEN Err(NotToken, s, q1) ELSE
    LET asset_config_opt == read_asset_config(position.asset.info.id) IN
    IF ~IsSome(asset_config_opt) THEN Err(UnknownAsset, s, q1) ELSE
    IF assert_migrated_asset(Unwrap(asset_config_opt)) # Ok
    THEN Err(AssetMigrated, s, q1) ELSE
    LET position1 == increase_collateral(position, collateral)
        s1 == store_position(s, idx, position1)
        attributes == [action |-> "deposit", position_idx |-> idx,
                       deposit_amount |-> collateral]
    IN  Return(Ok, s1, attributes, <<>>, q1)

withdraw(s, sender, idx, collateral_opt) ==
    LET position_opt == read_position(s, idx) IN
    IF ~IsSome(position_opt) THEN Err(PositionNotFound, s, <<>>) ELSE
    LET position == Unwrap(position_opt)
        position_owner == addr_humanize(position.owner)
    IN
    IF unauthorized(sender, position_owner) THEN Err(Unauthorized, s, <<>>) ELSE
    IF IsSome(collateral_opt) /\ assert_collateral(position, Unwrap(collateral_opt)) # Ok
    THEN Err(WrongCollateral, s, <<>>) ELSE
    IF IsSome(collateral_opt) /\ position.collateral.amount < Unwrap(collateral_opt).amount
    THEN Err(WithdrawTooMuch, s, <<>>) ELSE
    LET collateral == withdraw_collateral(position, collateral_opt) IN
    IF position.asset.info.tag # "token" THEN Err(NotToken, s, <<>>) ELSE
    LET asset_config_opt == read_asset_config(position.asset.info.id) IN
    IF ~IsSome(asset_config_opt) THEN Err(UnknownAsset, s, <<>>) ELSE
    LET asset_config == Unwrap(asset_config_opt)
        asset_price_opt == load_asset_price(position.asset.info)
        q1 == <<"oracle">>
    IN
    IF ~IsSome(asset_price_opt) THEN Err(PriceUnavailable, s, q1) ELSE
    LET asset_price == Unwrap(asset_price_opt)
        collateral_info == load_collateral_info(position.collateral.info)
        q2 == <<"oracle", "collateral_oracle">>
    IN
    IF ~IsSome(collateral_info) THEN Err(PriceUnavailable, s, q2) ELSE
    LET collateral_price == Unwrap(collateral_info).price
        collateral_multiplier ==
            withdraw_multiplier(asset_config, Unwrap(collateral_info).multiplier)
    IN
    IF position.collateral.amount < collateral.amount
    THEN Err(ArithmeticError, s, q2) ELSE
    LET collateral_amount == position.collateral.amount - collateral.amount IN
    IF collateral_price = 0 THEN Err(ArithmeticError, s, q2) ELSE
    IF required_collateral(position.asset.amount, asset_price, collateral_price,
                           asset_config.min_collateral_ratio, collateral_multiplier)
         > collateral_amount
    THEN Err(WithdrawInsufficientCollateral, s, q2) ELSE
    LET position1 == [position EXCEPT !.collateral.amount = collateral_amount]
        s1 == IF position1.collateral.amount = 0 /\ position1.asset.amount = 0
              THEN store_position(s, idx, position1)
              ELSE s
        attributes == [action |-> "withdraw", position_idx |-> idx,
                       withdraw_amount |-> collateral]
    IN  Return(Ok, s1, attributes, <<TransferMsg(collateral, position_owner)>>, q2)

mint(s, sender, idx, asset) ==
    LET mint_amount == asset.amount
        position_opt == read_position(s, idx)
    IN
    IF ~IsSome(position_opt) THEN Err(PositionNotFound, s, <<>>) ELSE
    LET position == Unwrap(position_opt)
        position_owner == addr_humanize(position.owner)
    IN
    IF unauthorized(sender, position_owner) THEN Err(Unauthorized, s, <<>>) ELSE
    IF assert_asset(position, asset) # Ok THEN Err(WrongAsset, s, <<>>) ELSE
    IF position.asset.info.tag # "token" THEN Err(NotToken, s, <<>>) ELSE
    LET asset_config_opt == read_asset_config(position.asset.info.id) IN
    IF ~IsSome(asset_config_opt) THEN Err(UnknownAsset, s, <<>>) ELSE
    LET asset_config == Unwrap(asset_config_opt) IN
    IF assert_migrated_asset(asset_config) # Ok THEN Err(AssetMigrated, s, <<>>) ELSE
    LET collateral_info == load_collateral_info(position.collateral.info)
        q1 == <<"collateral_oracle">>
    IN
    IF ~IsSome(collateral_info) THEN Err(PriceUnavailable, s, q1) ELSE
    IF assert_revoked_collateral(Unwrap(collateral_info)) # Ok
    THEN Err(AssetRevoked, s, q1) ELSE
    LET collateral_price == Unwrap(collateral_info).price
        collateral_multiplier == Unwrap(collateral_info).multiplier
        asset_price_opt == load_asset_price(position.asset.info)
        q2 == <<"collateral_oracle", "oracle">>
    IN
    IF ~IsSome(asset_price_opt) THEN Err(PriceUnavailable, s, q2) ELSE
    LET asset_price == Unwrap(asset_price_opt)
        asset_amount == mint_asset_amount(mint_amount, position)
    IN
    IF collateral_price = 0 THEN Err(ArithmeticError, s, q2) ELSE
    IF required_collateral(asset_amount, asset_price, collateral_price,
                           asset_config.min_collateral_ratio, collateral_multiplier)
         > position.collateral.amount
    THEN Err(MintInsufficientCollateral, s, q2) ELSE
    LET position1 == [position EXCEPT !.asset.amount = @ + mint_amount]
        s1 == store_position(s, idx, position1)
        messages == <<MintMsg(addr_humanize(asset_config.token),
                              position_owner, mint_amount)>>
        attributes == [action |-> "mint", position_idx |-> idx,
                       mint_amount |-> asset]
    IN  Return(Ok, s1, attributes, messages, q2)

-----------------------------------------------------------------------------
(* The state machine.                                                      *)

PositionIds == 1 .. MaxPositions

\* No call is in progress.
NoCall == [op |-> "none"]

env == <<asset_configs, collateral_oracle, oracle>>

\* contract.rs, instantiate: the counter starts at 1 and the ledger is empty.
\* The registry holds the registered token, not migrated; both oracles quote.
Init ==
    /\ positions = <<>>
    /\ by_user = {}
    /\ by_asset = {}
    /\ position_idx = 1
    /\ asset_configs =
         [t \in {addr_canonicalize(RegisteredToken)} |->
            [token |-> t, min_collateral_ratio |-> MinCollateralRatio,
             end_price |-> None]]
    /\ collateral_oracle =
         Some([price |-> Dec(10, 0), multiplier |-> Dec(1, 0), is_revoked |-> FALSE])
    /\ oracle = Some(Dec(5, 0))
    /\ response = NoCall
    /\ supplied = <<>>
    /\ minted = <<>>
    /\ withdrawn = <<>>

\* The sum of the amounts of the messages of one kind in a Response.
RECURSIVE MessageTotal(_, _)
MessageTotal(messages, kind) ==
    IF messages = <<>> THEN 0
    ELSE (IF Head(messages).msg = kind THEN Head(messages).amount ELSE 0)
           + MessageTotal(Tail(messages), kind)

\* A total of a position with an amount added; a position not yet in the
\* books starts at 0.
Booked(book, idx, amount) ==
    Save(book, idx, (IF idx \in DOMAIN book THEN book[idx] ELSE 0) + amount)

\* One call of a handler, run to its end: the storage as the handler leaves
\* it, and the handler's result and Response.
Handle(op, r) ==
    /\ response = NoCall
    /\ positions' = r.storage.positions
    /\ by_user' = r.storage.by_user
    /\ by_asset' = r.storage.by_asset
    /\ position_idx' = r.storage.position_idx
    /\ response' = [op |-> op, result |-> r.result, attributes |-> r.attributes,
                    messages |-> r.messages, queries |-> r.queries]
    /\ UNCHANGED env
    /\ IF r.result = Ok
       THEN LET idx == r.attributes.position_idx IN
            /\ supplied' =
                 Booked(supplied, idx,
                        IF op = "open_position" THEN r.attributes.collateral_amount.amount
                        ELSE IF op = "deposit" THEN r.attributes.deposit_amount.amount
                        ELSE 0)
            /\ minted' = Booked(minted, idx, MessageTotal(r.messages, "mint"))
       ELSE UNCHANGED <<supplied, minted>>

\* A call whose transfers are not added up: a withdraw can be repeated
\* without end, and the total of its transfers grows with it.
Call(op, r) == Handle(op, r) /\ UNCHANGED withdrawn

\* A call whose transfers are added up.
AuditedCall(op, r) ==
    /\ Handle(op, r)
    /\ IF r.result = Ok
       THEN withdrawn' = Booked(withdrawn, r.attributes.position_idx,
                                MessageTotal(r.messages, "transfer"))
       ELSE UNCHANGED withdrawn

OpenPosition ==
    /\ position_idx <= MaxPositions
    /\ \E sender \in Senders, info \in CollateralInfos, amount \in OpenAmounts,
          asset_info \in AssetInfos, collateral_ratio \in CollateralRatios :
         Call("open_position",
              open_position(Storage, sender, [info |-> info, amount |-> amount],
                            asset_info, collateral_ratio))

Deposit ==
    \E sender \in Senders, idx \in PositionIds,
       info \in CollateralInfos, amount \in DepositAmounts :
      /\ idx \in DOMAIN positions
           => positions[idx].collateral.amount + amount <= MaxCollateral
      /\ Call("deposit",
              deposit(Storage, sender, idx, [info |-> info, amount |-> amount]))

WithdrawInputs ==
    {None} \cup {Some([info |-> info, amount |-> amount]) :
                   info \in CollateralInfos, amount \in WithdrawAmounts}

Withdraw ==
    \E sender \in Senders, idx \in PositionIds, collateral_opt \in WithdrawInputs :
      Call("withdraw", withdraw(Storage, sender, idx, collateral_opt))

Mint ==
    \E sender \in Senders, idx \in PositionIds,
       info \in AssetInfos, amount \in MintAmounts :
      Call("mint", mint(Storage, sender, idx, [info |-> info, amount |-> amount]))

\* The host takes the Response of the finished call and dispatches its
\* messages; the next call starts after that.
Dispatch ==
    /\ response # NoCall
    /\ response' = NoCall
    /\ UNCHANGED <<positions, by_user, by_asset, position_idx, env, books>>

\* The collateral oracle changes its quote of the listed collateral.
SetCollateralQuote ==
    /\ response = NoCall
    /\ \E quote \in CollateralQuotes \ {collateral_oracle} :
         collateral_oracle' = quote
    /\ UNCHANGED <<positions, by_user, by_asset, position_idx,
                   asset_configs, oracle, response, books>>

\* The price oracle changes its quote of the registered token.
SetPriceQuote ==
    /\ response = NoCall
    /\ \E quote \in PriceQuotes \ {oracle} : oracle' = quote
    /\ UNCHANGED <<positions, by_user, by_asset, position_idx,
                   asset_configs, collateral_oracle, response, books>>

\* The registry migrates the registered token: its end price is set.
MigrateAsset ==
    /\ response = NoCall
    /\ \E t \in DOMAIN asset_configs, end_price \in EndPrices :
         /\ ~IsSome(asset_configs[t].end_price)
         /\ asset_configs' = [asset_configs EXCEPT ![t].end_price = Some(end_price)]
    /\ UNCHANGED <<positions, by_user, by_asset, position_idx,
                   collateral_oracle, oracle, response, books>>

Next ==
    \/ OpenPosition
    \/ Deposit
    \/ Withdraw
    \/ Mint
    \/ Dispatch
    \/ SetCollateralQuote
    \/ SetPriceQuote
    \/ MigrateAsset

Spec == Init /\ [][Next]_vars

-----------------------------------------------------------------------------
(* The same contract with the transfers added up.  The calls are those     *)
(* that open a position and unwind it: open_position with small and large  *)
(* collateral and with target ratios at and above the minimum, and         *)
(* withdraw.  A position is followed until its transfers exceed what it    *)
(* has been supplied.                                                      *)

AuditedOpenAmounts == {1, 1000}
AuditedCollateralRatios == {Dec(2, 0), Dec(2, 50)}

AuditedWithdrawInputs ==
    {None, Some([info |-> ListedCollateral, amount |-> 250]),
           Some([info |-> UnlistedCollateral, amount |-> 250])}

AuditedOpenPosition ==
    /\ position_idx <= MaxAuditedPositions
    /\ \E sender \in Senders, amount \in AuditedOpenAmounts,
          collateral_ratio \in AuditedCollateralRatios :
         AuditedCall("open_position",
                     open_position(Storage, sender,
                                   [info |-> ListedCollateral, amount |-> amount],
                                   Token(RegisteredToken), collateral_ratio))

AuditedWithdraw ==
    \E sender \in Senders, idx \in DOMAIN positions,
       collateral_opt \in AuditedWithdrawInputs :
      /\ withdrawn[idx] <= supplied[idx]
      /\ AuditedCall("withdraw", withdraw(Storage, sender, idx, collateral_opt))

NextAudit ==
    \/ AuditedOpenPosition
    \/ AuditedWithdraw
    \/ Dispatch
    \/ SetCollateralQuote
    \/ SetPriceQuote
    \/ MigrateAsset

SpecAudit == Init /\ [][NextAudit]_vars

-----------------------------------------------------------------------------
(* The claims.  A call has just ended in every state whose response is not *)
(* NoCall, and the quotes of that state are the quotes the call has read:  *)
(* the oracles and the registry change between calls only.  A step that    *)
(* leaves a response is the call itself: before it stands the state the    *)
(* call started in, after it the state the call has left.                  *)

PositionOps == {"open_position", "deposit", "withdraw", "mint"}

Succeeded(resp, ops) == resp.op \in ops /\ resp.result = Ok

Failed(resp) == resp.op \in PositionOps /\ resp.result # Ok

AssetConfigOf(position) == asset_configs[position.asset.info.id]

Migrated(position) == IsSome(AssetConfigOf(position).end_price)

Quoted ==
    IsSome(oracle) /\ IsSome(collateral_oracle) /\ Unwrap(collateral_oracle).price # 0

\* synthetic_amount x (synthetic_price / collateral_price) x
\* min_collateral_ratio x multiplier at the current quotes, each product and
\* the quotient rounded down to the unit as the fixed-point arithmetic does.
RequiredAtQuotes(position, multiplier) ==
    LET price_ratio == (Unwrap(oracle) * DECIMAL_UNIT)
                          \div Unwrap(collateral_oracle).price
        value == (position.asset.amount * price_ratio) \div DECIMAL_UNIT
        scaled == (value * AssetConfigOf(position).min_collateral_ratio) \div DECIMAL_UNIT
    IN  (scaled * multiplier) \div DECIMAL_UNIT

\* The multiplier rule of an operation: the oracle's multiplier, except 1.0
\* for withdraw on a migrated asset.
MultiplierRule(op, position) ==
    IF op = "withdraw" /\ Migrated(position)
    THEN DECIMAL_UNIT
    ELSE Unwrap(collateral_oracle).multiplier

SolventAfter(ops) ==
    (Succeeded(response, ops) /\ Quoted) =>
        LET position == positions[response.attributes.position_idx] IN
        RequiredAtQuotes(position, MultiplierRule(response.op, position))
            <= position.collateral.amount

\* C1 (as stated): after every successful open, deposit, withdraw and mint
\* the affected stored position holds at least the collateral its synthetic
\* amount requires at the quotes of that call.
C1_SolventAfterEveryCall == SolventAfter(PositionOps)

\* C1 (amended): after every successful withdraw and mint, the two calls
\* that run the solvency check, the affected stored position holds at least
\* the collateral its synthetic amount requires at the quotes of that call.
C1_SolventAfterWithdrawAndMint == SolventAfter({"withdraw", "mint"})

\* A mint has succeeded and left a position that the check has passed.
C1_Witness ==
    /\ Succeeded(response, {"mint"})
    /\ positions[response.attributes.position_idx].asset.amount = 1300
    /\ positions[response.attributes.position_idx].collateral.amount = 1000

\* C2: a successful withdraw of amount a from a position whose stored
\* collateral amount is c leaves the stored collateral amount c - a.
C2_WithdrawStoresBalance ==
    [][Succeeded(response', {"withdraw"}) =>
         LET idx == response'.attributes.position_idx IN
         positions'[idx].collateral.amount
           = positions[idx].collateral.amount
               - response'.attributes.withdraw_amount.amount]_vars

\* C3: a successful open issues the current value of the counter, which no
\* stored position has, and moves the counter up by exactly 1; no other call
\* and no failed call changes the counter; every stored id is below it.
C3_PositionIdsIncrease ==
    [][/\ IF Succeeded(response', {"open_position"})
          THEN /\ response'.attributes.position_idx = position_idx
               /\ position_idx \notin DOMAIN positions
               /\ position_idx \in DOMAIN positions'
               /\ position_idx' = position_idx + 1
          ELSE position_idx' = position_idx
       /\ \A idx \in DOMAIN positions' : idx < position_idx']_vars

\* The second open has been issued id 2 after the first was issued id 1.
C3_Witness ==
    /\ Succeeded(response, {"open_position"})
    /\ response.attributes.position_idx = 2
    /\ position_idx = 3
    /\ DOMAIN positions = {1, 2}

\* C4: a call that ends in an error leaves the positions, both indices and
\* the counter as they were, and its response carries no message.
C4_FailedCallChangesNothing ==
    [][Failed(response') =>
         /\ positions' = positions
         /\ by_user' = by_user
         /\ by_asset' = by_asset
         /\ position_idx' = position_idx
         /\ response'.messages = <<>>]_vars

\* A call on a ledger that holds positions has failed the solvency check.
C4_Witness ==
    /\ Failed(response)
    /\ response.result = WithdrawInsufficientCollateral
    /\ DOMAIN positions # {}

-----------------------------------------------------------------------------
(* Claims about what a call does with given inputs are stated of every     *)
(* call the model can make between two calls (response = NoCall), in every *)
(* reachable state of the ledger, the registry and the oracles.            *)

Assets(infos, amounts) ==
    {[info |-> info, amount |-> amount] : info \in infos, amount \in amounts}

RegisteredMigrated ==
    IsSome(asset_configs[addr_canonicalize(RegisteredToken)].end_price)

OwnedBy(sender, idx) ==
    idx \in DOMAIN positions /\ positions[idx].owner = addr_canonicalize(sender)

CollateralUsable(info) ==
    /\ IsSome(load_collateral_info(to_raw(info)))
    /\ ~Unwrap(load_collateral_info(to_raw(info))).is_revoked

\* The given asset names the stored asset and its amount is not zero.
Matches(asset, stored) == InfoEq(to_raw(asset.info), stored.info) /\ asset.amount # 0

\* The opens against the registered token, the deposits into stored
\* positions and the mints on stored positions, and what each returns.
OpenCalls ==
    [sender : Senders, collateral : Assets(CollateralInfos, OpenAmounts),
     collateral_ratio : CollateralRatios]

OpenOf(call) ==
    open_position(Storage, call.sender, call.collateral, Token(RegisteredToken),
                  call.collateral_ratio)

DepositCalls ==
    [sender : Senders, idx : DOMAIN positions,
     collateral : Assets(CollateralInfos, DepositAmounts)]

DepositOf(call) == deposit(Storage, call.sender, call.idx, call.collateral)

MintCalls ==
    [sender : Senders, idx : DOMAIN positions, asset : Assets(AssetInfos, MintAmounts)]

MintOf(call) == mint(Storage, call.sender, call.idx, call.asset)

\* C5 (as stated): while the registered token is migrated, every open,
\* deposit and mint against it fails with AssetMigrated.
C5_MigratedCallsFailWithAssetMigrated ==
    (response = NoCall /\ RegisteredMigrated) =>
        /\ \A call \in OpenCalls : OpenOf(call).result = AssetMigrated
        /\ \A call \in DepositCalls : DepositOf(call).result = AssetMigrated
        /\ \A call \in MintCalls : MintOf(call).result = AssetMigrated

Rejected(r) == r.result # Ok /\ r.storage = Storage /\ r.messages = <<>>

\* C5 (amended): while the registered token is migrated, every open, deposit
\* and mint against it fails and leaves the storage as it was, so no position
\* of the token gets more collateral or more synthetic debt; the error is
\* AssetMigrated whenever the call passes the checks its handler makes before
\* it reads the registry (open: collateral not zero, quoted and not revoked;
\* deposit: sender is the owner, collateral matches and is not zero, quoted
\* and not revoked; mint: sender is the owner, asset matches and is not zero).
C5_MigratedCallsFail ==
    (response = NoCall /\ RegisteredMigrated) =>
        /\ \A call \in OpenCalls :
             /\ Rejected(OpenOf(call))
             /\ ( /\ call.collateral.amount # 0
                  /\ CollateralUsable(call.collateral.info) )
                   => OpenOf(call).result = AssetMigrated
        /\ \A call \in DepositCalls :
             /\ Rejected(DepositOf(call))
             /\ ( /\ OwnedBy(call.sender, call.idx)
                  /\ Matches(call.collateral, positions[call.idx].collateral)
                  /\ CollateralUsable(call.collateral.info) )
                   => DepositOf(call).result = AssetMigrated
        /\ \A call \in MintCalls :
             /\ Rejected(MintOf(call))
             /\ (OwnedBy(call.sender, call.idx)
                   /\ Matches(call.asset, positions[call.idx].asset))
                   => MintOf(call).result = AssetMigrated

\* A deposit into a position of the migrated token has failed with
\* AssetMigrated.
C5_Witness ==
    /\ response.op = "deposit"
    /\ response.result = AssetMigrated
    /\ RegisteredMigrated
    /\ DOMAIN positions # {}

\* The withdraw calls that reach the solvency check: the sender owns the
\* position, a given collateral matches, is not zero and not above the
\* balance, and both oracles quote.
ReachesCheck(sender, idx, collateral_opt) ==
    /\ OwnedBy(sender, idx)
    /\ IsSome(collateral_opt) =>
         /\ Matches(Unwrap(collateral_opt), positions[idx].collateral)
         /\ Unwrap(collateral_opt).amount <= positions[idx].collateral.amount
    /\ Quoted

Remaining(idx, collateral_opt) ==
    IF IsSome(collateral_opt)
    THEN positions[idx].collateral.amount - Unwrap(collateral_opt).amount
    ELSE 0

\* C6: a withdraw that reaches the solvency check succeeds exactly when the
\* remaining collateral covers the required collateral, computed with
\* multiplier 1.0 when the position's asset is migrated and with the
\* oracle's multiplier when it is not; otherwise it fails with
\* "Cannot withdraw collateral over than minimum collateral ratio".
C6_WithdrawMultiplier ==
    response = NoCall =>
        \A sender \in Senders, idx \in DOMAIN positions,
           collateral_opt \in WithdrawInputs :
          ReachesCheck(sender, idx, collateral_opt) =>
            LET r == withdraw(Storage, sender, idx, collateral_opt)
                multiplier == IF Migrated(positions[idx])
                              THEN DECIMAL_UNIT
                              ELSE Unwrap(collateral_oracle).multiplier
                covered == RequiredAtQuotes(positions[idx], multiplier)
                              <= Remaining(idx, collateral_opt)
            IN  /\ r.result = (IF covered THEN Ok ELSE WithdrawInsufficientCollateral)
                /\ covered => r.messages # <<>>

\* A withdraw from a position of the migrated token has succeeded although
\* the oracle's multiplier, were it applied, would require more than the
\* collateral that remains.  (The stored balance is still the balance the
\* call started with.)
C6_Witness ==
    /\ Succeeded(response, {"withdraw"})
    /\ Quoted
    /\ LET position == positions[response.attributes.position_idx]
           remaining == position.collateral.amount
                          - response.attributes.withdraw_amount.amount
       IN  /\ Migrated(position)
           /\ Unwrap(collateral_oracle).multiplier > DECIMAL_UNIT
           /\ RequiredAtQuotes(position, DECIMAL_UNIT) <= remaining
           /\ RequiredAtQuotes(position, Unwrap(collateral_oracle).multiplier)
                > remaining

\* C7: for a position owned by the sender, with both oracles quoting, the
\* withdrawal that leaves exactly the required collateral succeeds and the
\* withdrawal of one unit more fails with "Cannot withdraw collateral over
\* than minimum collateral ratio"; with collateral 1000 at price 10,
\* synthetic 1000 at price 5, ratio 1.5 and multiplier 1.0, withdrawing 250
\* succeeds and withdrawing 260 fails.
C7_WithdrawBoundary ==
    (response = NoCall /\ Quoted) =>
        \A sender \in Senders, idx \in DOMAIN positions :
          OwnedBy(sender, idx) =>
            LET position == positions[idx]
                balance == position.collateral.amount
                required == RequiredAtQuotes(position, MultiplierRule("withdraw", position))
                Take(amount) ==
                    withdraw(Storage, sender, idx,
                             Some([info |-> to_normal(position.collateral).info,
                                   amount |-> amount])).result
            IN  /\ (required >= 0 /\ balance - required >= 1)
                     => Take(balance - required) = Ok
                /\ (required >= 1 /\ balance - required >= 0)
                     => Take(balance - required + 1) = WithdrawInsufficientCollateral
                /\ ( /\ balance = 1000
                     /\ position.asset.amount = 1000
                     /\ Unwrap(collateral_oracle).price = Dec(10, 0)
                     /\ Unwrap(oracle) = Dec(5, 0)
                     /\ AssetConfigOf(position).min_collateral_ratio = Dec(1, 50)
                     /\ MultiplierRule("withdraw", position) = Dec(1, 0) )
                     => /\ required = 750
                        /\ Take(250) = Ok
                        /\ Take(260) = WithdrawInsufficientCollateral

\* A withdraw of 250 from collateral 1000 against synthetic 1000 has
\* succeeded at prices 10 and 5 and multiplier 1.0: it leaves exactly the
\* required 750.
C7_Witness ==
    /\ Succeeded(response, {"withdraw"})
    /\ Quoted
    /\ response.attributes.withdraw_amount.amount = 250
    /\ LET position == positions[response.attributes.position_idx] IN
         /\ position.collateral.amount = 1000
         /\ position.asset.amount = 1000
         /\ MultiplierRule("withdraw", position) = Dec(1, 0)
         /\ RequiredAtQuotes(position, Dec(1, 0)) = 1000 - 250

\* C8: a successful deposit adds exactly the deposited amount, which is not
\* zero, to the stored collateral amount of its position, leaves the
\* position's synthetic asset as it was, and returns no message.
C8_DepositAddsCollateral ==
    [][Succeeded(response', {"deposit"}) =>
         LET idx == response'.attributes.position_idx
             amount == response'.attributes.deposit_amount.amount
         IN  /\ amount > 0
             /\ positions'[idx].collateral.amount
                  = positions[idx].collateral.amount + amount
             /\ positions'[idx].collateral.amount > positions[idx].collateral.amount
             /\ positions'[idx].asset = positions[idx].asset
             /\ response'.messages = <<>>]_vars

\* A deposit of 100 has taken a balance of 1000 to 1100.
C8_Witness ==
    /\ Succeeded(response, {"deposit"})
    /\ response.attributes.deposit_amount.amount = 100
    /\ positions[response.attributes.position_idx].collateral.amount = 1100

\* collateral_amount x (collateral_price / synthetic_price) x (1 / ratio),
\* the quotient, the reciprocal and each product rounded down to the unit.
MintAmountAtQuotes(collateral_amount, collateral_ratio) ==
    LET price_ratio == (Unwrap(collateral_oracle).price * DECIMAL_UNIT) \div Unwrap(oracle)
        reciprocal == (DECIMAL_UNIT * DECIMAL_UNIT) \div collateral_ratio
        value == (collateral_amount * price_ratio) \div DECIMAL_UNIT
    IN  (value * reciprocal) \div DECIMAL_UNIT

\* C9: a successful open stores, under the current value of the counter, a
\* new position with owner = sender, the given collateral and synthetic
\* amount = mint_amount, which is not zero, and returns exactly one message,
\* the token's mint of mint_amount to the sender; an open that gets as far
\* as the mint amount fails with "collateral is too small" exactly when the
\* amount rounds to zero.
C9_OpenStoresPosition ==
    response = NoCall =>
        \A sender \in Senders, collateral \in Assets(CollateralInfos, OpenAmounts),
           collateral_ratio \in CollateralRatios :
          LET asset_info == Token(RegisteredToken)
              r == open_position(Storage, sender, collateral, asset_info,
                                 collateral_ratio)
          IN  r.result \in {Ok, MintAmountZero} =>
                LET mint_amount == MintAmountAtQuotes(collateral.amount,
                                                      collateral_ratio)
                IN  /\ r.result = Ok <=> mint_amount # 0
                    /\ r.result = MintAmountZero => r.storage = Storage
                    /\ r.result = Ok =>
                         /\ position_idx \notin DOMAIN positions
                         /\ DOMAIN r.storage.positions
                              = DOMAIN positions \cup {position_idx}
                         /\ r.storage.positions[position_idx]
                              = [idx |-> position_idx,
                                 owner |-> addr_canonicalize(sender),
                                 collateral |-> [amount |-> collateral.amount,
                                                 info |-> to_raw(collateral.info)],
                                 asset |-> [amount |-> mint_amount,
                                            info |-> to_raw(asset_info)]]
                         /\ r.messages
                              = <<[msg |-> "mint", contract_addr |-> RegisteredToken,
                                   recipient |-> sender, amount |-> mint_amount]>>

\* An open with collateral 1000 at price 10 against the synthetic at price 5
\* has minted 1000 (ratio 2.0) and stored the position.
C9_Witness ==
    /\ Succeeded(response, {"open_position"})
    /\ Quoted
    /\ Unwrap(collateral_oracle).price = Dec(10, 0)
    /\ Unwrap(oracle) = Dec(5, 0)
    /\ response.attributes.collateral_amount.amount = 1000
    /\ response.attributes.mint_amount.amount = 1000
    /\ MintAmountAtQuotes(1000, Dec(2, 0)) = 1000
    /\ positions[response.attributes.position_idx].asset.amount = 1000
    /\ positions[response.attributes.position_idx].collateral.amount = 1000

\* C10: an open succeeds only if its collateral amount is not zero and its
\* target ratio is at least the asset's minimum ratio times the collateral's
\* oracle multiplier (the fixed-point product); an open that fails creates
\* no position.
C10_OpenPreconditions ==
    response = NoCall =>
        \A sender \in Senders, collateral \in Assets(CollateralInfos, OpenAmounts),
           asset_info \in AssetInfos, collateral_ratio \in CollateralRatios :
          LET r == open_position(Storage, sender, collateral, asset_info,
                                 collateral_ratio)
          IN  /\ r.result = Ok =>
                   /\ collateral.amount # 0
                   /\ collateral_ratio
                        >= (asset_configs[to_raw(asset_info).id].min_collateral_ratio
                              * Unwrap(collateral_oracle).multiplier) \div DECIMAL_UNIT
              /\ r.result # Ok => r.storage = Storage /\ r.messages = <<>>

\* An open with target ratio 2.0 has failed because the oracle's multiplier
\* 1.67 scales the minimum ratio 1.5 above it.
C10_Witness ==
    /\ response.op = "open_position"
    /\ response.result = LowCollateralRatio
    /\ IsSome(collateral_oracle)
    /\ Unwrap(collateral_oracle).multiplier = Dec(1, 67)
    /\ positions = <<>>

\* The collateral a position requires at the quotes once it owes additional
\* synthetic units.
RequiredWith(position, additional, multiplier) ==
    RequiredAtQuotes([position EXCEPT !.asset.amount = @ + additional], multiplier)

\* The mints that reach the solvency check: the sender owns the position,
\* the asset is the position's and not zero, the asset is not migrated, the
\* collateral is quoted and not revoked, and the price oracle quotes.
MintReachesCheck(call) ==
    /\ OwnedBy(call.sender, call.idx)
    /\ Matches(call.asset, positions[call.idx].asset)
    /\ ~Migrated(positions[call.idx])
    /\ CollateralUsable(info_to_normal(positions[call.idx].collateral.info))
    /\ Quoted

\* C11: a mint that reaches the solvency check succeeds exactly when the
\* position's collateral covers what current + additional requires, and
\* otherwise fails with "Cannot mint asset over than min collateral ratio";
\* a successful mint stores synthetic amount = current + additional, leaves
\* the collateral as it was, and returns exactly one message, the token's
\* mint of the additional amount to the position's owner.
C11_MintChecksNewTotal ==
    response = NoCall =>
        \A call \in MintCalls :
          MintReachesCheck(call) =>
            LET position == positions[call.idx]
                r == MintOf(call)
                covered == RequiredWith(position, call.asset.amount,
                                        Unwrap(collateral_oracle).multiplier)
                             <= position.collateral.amount
            IN  /\ r.result = (IF covered THEN Ok ELSE MintInsufficientCollateral)
                /\ ~covered => r.storage = Storage /\ r.messages = <<>>
                /\ covered =>
                     /\ r.storage.positions[call.idx].asset.amount
                          = position.asset.amount + call.asset.amount
                     /\ r.storage.positions[call.idx].collateral = position.collateral
                     /\ r.storage.positions[call.idx].owner = position.owner
                     /\ r.messages
                          = <<[msg |-> "mint", contract_addr |-> RegisteredToken,
                               recipient |-> addr_humanize(position.owner),
                               amount |-> call.asset.amount]>>

\* A mint of 300 has failed on a position that owes 1300 against collateral
\* 1000: 300 alone would be covered (225), the new total 1600 is not (1200).
C11_Witness ==
    /\ response.op = "mint"
    /\ response.result = MintInsufficientCollateral
    /\ Quoted
    /\ Unwrap(collateral_oracle).multiplier = Dec(1, 0)
    /\ DOMAIN positions = {1}
    /\ positions[1].asset.amount = 1300
    /\ positions[1].collateral.amount = 1000
    /\ RequiredWith(positions[1], 300, Dec(1, 0)) = 1200

\* C12: a deposit, withdraw or mint on a stored position whose sender is not
\* the position's owner fails with "unauthorized", whatever its other
\* arguments, the registry and the oracles are; it consults no oracle,
\* changes nothing and returns no message.
C12_OnlyOwner ==
    response = NoCall =>
        LET Refused(r) ==
                /\ r.result = Unauthorized
                /\ r.queries = <<>>
                /\ r.storage = Storage
                /\ r.messages = <<>>
        IN  /\ \A call \in DepositCalls :
                 ~OwnedBy(call.sender, call.idx) => Refused(DepositOf(call))
            /\ \A call \in MintCalls :
                 ~OwnedBy(call.sender, call.idx) => Refused(MintOf(call))
            /\ \A sender \in Senders, idx \in DOMAIN positions,
                  collateral_opt \in WithdrawInputs :
                 ~OwnedBy(sender, idx)
                    => Refused(withdraw(Storage, sender, idx, collateral_opt))

\* A withdraw by a sender who does not own the position has failed with
\* "unauthorized" while the asset is migrated and no oracle quotes.
C12_Witness ==
    /\ response.op = "withdraw"
    /\ response.result = Unauthorized
    /\ ~IsSome(oracle)
    /\ ~IsSome(collateral_oracle)
    /\ RegisteredMigrated
    /\ DOMAIN positions = {1}

\* C13: a position id is in the ledger exactly when it is in the owner index
\* under that position's owner and in the asset index under that position's
\* synthetic asset, and neither index holds anything else.
C13_IndicesMatchLedger ==
    /\ by_user = {<<positions[idx].owner, idx>> : idx \in DOMAIN positions}
    /\ by_asset = {<<positions[idx].asset.info, idx>> : idx \in DOMAIN positions}

\* Two positions of different owners are in the ledger and in both indices.
C13_Witness ==
    /\ DOMAIN positions = {1, 2}
    /\ positions[1].owner # positions[2].owner
    /\ Cardinality(by_user) = 2
    /\ Cardinality(by_asset) = 2

\* C14: for the position's owner, a withdraw without a collateral argument
\* is judged with remaining collateral 0 (it succeeds exactly when the
\* position requires nothing) and its transfer carries the position's whole
\* balance to the owner; a withdraw with a collateral argument fails when
\* the asset is not the position's collateral asset or when the amount
\* exceeds the balance, and changes nothing.
C14_WithdrawAllOrGiven ==
    response = NoCall =>
        \A sender \in Senders, idx \in DOMAIN positions :
          OwnedBy(sender, idx) =>
            LET position == positions[idx]
                all == withdraw(Storage, sender, idx, None)
            IN  /\ Quoted =>
                     /\ all.result =
                          (IF RequiredAtQuotes(position,
                                               MultiplierRule("withdraw", position)) <= 0
                           THEN Ok ELSE WithdrawInsufficientCollateral)
                     /\ all.result = Ok =>
                          all.messages
                            = <<[msg |-> "transfer",
                                 info |-> info_to_normal(position.collateral.info),
                                 recipient |-> sender,
                                 amount |-> position.collateral.amount]>>
                /\ \A collateral_opt \in WithdrawInputs \ {None} :
                     LET collateral == Unwrap(collateral_opt)
                         r == withdraw(Storage, sender, idx, collateral_opt)
                     IN  ( \/ ~InfoEq(to_raw(collateral.info), position.collateral.info)
                           \/ collateral.amount > position.collateral.amount )
                           => Rejected(r)

\* A withdraw without a collateral argument has succeeded and its transfer
\* carries the whole balance of the position.
C14_Witness ==
    /\ Succeeded(response, {"withdraw"})
    /\ LET position == positions[response.attributes.position_idx] IN
         /\ position.collateral.amount > 0
         /\ response.messages[1].amount = position.collateral.amount
         /\ response.attributes.withdraw_amount.amount = position.collateral.amount
         /\ withdrawn[response.attributes.position_idx] = position.collateral.amount

\* A withdraw of more than the balance has failed with "Cannot withdraw more
\* than you provide".
C14_WitnessTooMuch ==
    /\ response.op = "withdraw"
    /\ response.result = WithdrawTooMuch
    /\ DOMAIN positions = {1}
    /\ positions[1].collateral.amount < 250

\* The token infos among the asset infos.
TokenInfos == {asset_info \in AssetInfos : to_raw(asset_info).tag = "token"}

\* The synthetic asset is not in the registry, or is migrated.
Unregistered(asset_info) == to_raw(asset_info).id \notin DOMAIN asset_configs

RegistryError(asset_info) ==
    IF Unregistered(asset_info) THEN UnknownAsset ELSE AssetMigrated

RefusedByRegistry(asset_info) ==
    \/ Unregistered(asset_info)
    \/ IsSome(asset_configs[to_raw(asset_info).id].end_price)

OpenOn(call, asset_info) ==
    open_position(Storage, call.sender, call.collateral, asset_info,
                  call.collateral_ratio)

\* C15 (as stated): an open, deposit or mint whose arguments are otherwise
\* in order and whose synthetic asset is unregistered or migrated fails with
\* the registry error and has consulted no oracle.
C15_RegistryErrorBeforeAnyOracle ==
    response = NoCall =>
        /\ \A call \in OpenCalls, asset_info \in TokenInfos :
             (call.collateral.amount # 0 /\ RefusedByRegistry(asset_info)) =>
                /\ OpenOn(call, asset_info).result = RegistryError(asset_info)
                /\ OpenOn(call, asset_info).queries = <<>>
        /\ \A call \in DepositCalls :
             ( /\ OwnedBy(call.sender, call.idx)
               /\ Matches(call.collateral, positions[call.idx].collateral)
               /\ Migrated(positions[call.idx]) ) =>
                /\ DepositOf(call).result = AssetMigrated
                /\ DepositOf(call).queries = <<>>
        /\ \A call \in MintCalls :
             ( /\ OwnedBy(call.sender, call.idx)
               /\ Matches(call.asset, positions[call.idx].asset)
               /\ Migrated(positions[call.idx]) ) =>
                /\ MintOf(call).result = AssetMigrated
                /\ MintOf(call).queries = <<>>

\* C15 (amended): an open, deposit or mint whose arguments are otherwise in
\* order and whose synthetic asset is unregistered or migrated fails, changes
\* nothing and never consults the price oracle.  mint consults no oracle at
\* all and fails with the registry error whatever the oracles quote.
\* open_position and deposit consult the collateral oracle first, and only
\* that one: they fail with the registry error when the collateral is quoted
\* and not revoked, also when the price oracle has no quote, and with the
\* collateral oracle's error otherwise.
C15_RegistryErrorBeforePrices ==
    response = NoCall =>
        /\ \A call \in OpenCalls, asset_info \in TokenInfos :
             (call.collateral.amount # 0 /\ RefusedByRegistry(asset_info)) =>
                LET r == OpenOn(call, asset_info) IN
                /\ Rejected(r)
                /\ r.queries = <<"collateral_oracle">>
                /\ r.result = (IF CollateralUsable(call.collateral.info)
                               THEN RegistryError(asset_info)
                               ELSE IF IsSome(load_collateral_info(to_raw(call.collateral.info)))
                               THEN AssetRevoked
                               ELSE PriceUnavailable)
        /\ \A call \in DepositCalls :
             ( /\ OwnedBy(call.sender, call.idx)
               /\ Matches(call.collateral, positions[call.idx].collateral)
               /\ Migrated(positions[call.idx]) ) =>
                LET r == DepositOf(call) IN
                /\ Rejected(r)
                /\ r.queries = <<"collateral_oracle">>
                /\ r.result = (IF CollateralUsable(call.collateral.info)
                               THEN AssetMigrated
                               ELSE IF IsSome(collateral_oracle)
                               THEN AssetRevoked
                               ELSE PriceUnavailable)
        /\ \A call \in MintCalls :
             ( /\ OwnedBy(call.sender, call.idx)
               /\ Matches(call.asset, positions[call.idx].asset)
               /\ Migrated(positions[call.idx]) ) =>
                LET r == MintOf(call) IN
                /\ Rejected(r)
                /\ r.queries = <<>>
                /\ r.result = AssetMigrated

\* An open against an unregistered token has failed with "no asset data
\* stored" while the price oracle has no quote; the collateral oracle is the
\* one oracle it has consulted.
C15_Witness ==
    /\ response.op = "open_position"
    /\ response.result = UnknownAsset
    /\ response.queries = <<"collateral_oracle">>
    /\ ~IsSome(oracle)

\* The collateral oracle reports the listed collateral as revoked.
Revoked == IsSome(collateral_oracle) /\ Unwrap(collateral_oracle).is_revoked

\* C16: while the collateral oracle reports the collateral as revoked, every
\* open with that collateral and every deposit and mint on a position that
\* holds it fails, changes nothing and returns no message.
C16_RevokedCollateralFails ==
    (response = NoCall /\ Revoked) =>
        /\ \A call \in OpenCalls, asset_info \in AssetInfos :
             call.collateral.info = ListedCollateral
                => Rejected(OpenOn(call, asset_info))
        /\ \A call \in DepositCalls :
             InfoEq(positions[call.idx].collateral.info, to_raw(ListedCollateral))
                => Rejected(DepositOf(call))
        /\ \A call \in MintCalls :
             InfoEq(positions[call.idx].collateral.info, to_raw(ListedCollateral))
                => Rejected(MintOf(call))

\* A mint on a position has failed because its collateral is revoked.
C16_Witness ==
    /\ response.op = "mint"
    /\ response.result = AssetRevoked
    /\ Revoked
    /\ DOMAIN positions # {}

RequiredAtCheckedRatio(position) ==
    LET value == (position.asset.amount
                    * ((Unwrap(oracle) * DECIMAL_UNIT) \div Unwrap(collateral_oracle).price))
                   \div DECIMAL_UNIT
        checked_ratio == (AssetConfigOf(position).min_collateral_ratio
                            * Unwrap(collateral_oracle).multiplier) \div DECIMAL_UNIT
    IN  (value * checked_ratio) \div DECIMAL_UNIT

C18_NothingRemoved ==
    [][ /\ \A idx \in DOMAIN positions :
             /\ idx \in DOMAIN positions'
             /\ positions'[idx].idx = positions[idx].idx
             /\ positions'[idx].owner = positions[idx].owner
             /\ positions'[idx].collateral.info = positions[idx].collateral.info
             /\ positions'[idx].asset.info = positions[idx].asset.info
        /\ by_user \subseteq by_user'
        /\ by_asset \subseteq by_asset' ]_vars

\* After the second position was opened and a withdraw from the first
\* succeeded, the first is still in the ledger and in both indices.
C18_Witness ==
    /\ Succeeded(response, {"withdraw"})
    /\ response.attributes.position_idx = 1
    /\ DOMAIN positions = {1, 2}
    /\ <<positions[1].owner, 1>> \in by_user
    /\ <<positions[1].asset.info, 1>> \in by_asset

\* C19: for every position, the amounts of the transfers returned by its
\* successful withdraws add up to no more than the collateral it has been
\* supplied through open_position and deposit.
C19_CollateralConserved ==
    \A idx \in DOMAIN withdrawn : withdrawn[idx] <= supplied[idx]

\* C20: each position's stored synthetic amount is the sum of the amounts of
\* the mint messages returned for it by successful open_position and mint
\* calls, and the positions with such messages are the stored positions.
C20_DebtIsWhatWasMinted ==
    /\ DOMAIN minted = DOMAIN positions
    /\ \A idx \in DOMAIN positions : positions[idx].asset.amount = minted[idx]

\* A position opened with a mint of 1000 and enlarged by a mint of 300 owes
\* 1300.
C20_Witness ==
    /\ Succeeded(response, {"mint"})
    /\ response.messages[1].amount = 300
    /\ minted[response.attributes.position_idx] = 1300
    /\ positions[response.attributes.position_idx].asset.amount = 1300

\* C21: in every state the position-id counter is 1 plus the number of
\* positions in the ledger, the keys of the ledger are the integers
\* 1 .. counter - 1, and each stored position's idx field is the key it is
\* stored under.
C21_CounterCountsPositions ==
    /\ position_idx = Cardinality(DOMAIN positions) + 1
    /\ DOMAIN positions = 1 .. (position_idx - 1)
    /\ \A idx \in DOMAIN positions : positions[idx].idx = idx

\* Two positions are stored under the keys 1 and 2 and the counter is 3,
\* between two calls.
C21_Witness ==
    /\ response = NoCall
    /\ position_idx = 3
    /\ DOMAIN positions = {1, 2}
    /\ positions[1].idx = 1
    /\ positions[2].idx = 2

\* The ledger but for one position.
Others(ledger_positions, idx) ==
    [other \in DOMAIN ledger_positions \ {idx} |-> ledger_positions[other]]

\* C22: a successful deposit, withdraw or mint leaves the counter, both
\* indices and every other position as they were, and of the position it
\* targets it changes at most one amount (the collateral amount for deposit
\* and withdraw, the synthetic amount for mint), not the owner, the idx or
\* the asset identities; a successful open changes no position that was
\* stored before it.
C22_OnlyOneAmountChanges ==
    [][ /\ Succeeded(response', {"deposit", "withdraw", "mint"}) =>
             LET idx == response'.attributes.position_idx IN
             /\ idx \in DOMAIN positions
             /\ DOMAIN positions' = DOMAIN positions
             /\ Others(positions', idx) = Others(positions, idx)
             /\ position_idx' = position_idx
             /\ by_user' = by_user
             /\ by_asset' = by_asset
             /\ positions'[idx].idx = positions[idx].idx
             /\ positions'[idx].owner = positions[idx].owner
             /\ positions'[idx].collateral.info = positions[idx].collateral.info
             /\ positions'[idx].asset.info = positions[idx].asset.info
             /\ response'.op \in {"deposit", "withdraw"}
                  => positions'[idx].asset.amount = positions[idx].asset.amount
             /\ response'.op = "mint"
                  => positions'[idx].collateral.amount
                       = positions[idx].collateral.amount
        /\ Succeeded(response', {"open_position"}) =>
             \A idx \in DOMAIN positions :
               idx \in DOMAIN positions' /\ positions'[idx] = positions[idx]
      ]_vars

\* A mint of 300 on the second of two positions has succeeded: the second
\* owes 1300 and the first still owes 1000.
C22_Witness ==
    /\ Succeeded(response, {"mint"})
    /\ response.attributes.position_idx = 2
    /\ DOMAIN positions = {1, 2}
    /\ positions[2].asset.amount = 1300
    /\ positions[1].asset.amount = 1000
    /\ positions[1].collateral.amount = 1100

=============================================================================
